---- MODULE Spec2Model ----
(***************************************************************************)
(* Model of cuda/stream_manager.cpp: the per-device pool of CUDA streams   *)
(* and cuBLAS handles (CudaStreamManager) and the process-wide registry    *)
(* (smgrs, smgr_mtx, getCudaStreamManager).                                *)
(*                                                                         *)
(* Host threads are modelled at the granularity of the statements of       *)
(* getCudaStreamManager; the two lookups and the insertion into the        *)
(* std::unordered_map have a beginning and an end, so that an unlocked     *)
(* lookup can overlap an insertion.  Such an overlap is a data race; its   *)
(* outcome is a nondeterministic choice (miss, hit, wild pointer, crash).  *)
(* The CUDA runtime and cuBLAS are the environment: they hand out fresh    *)
(* stream and handle ids, may fail any call, and drain streams in FIFO     *)
(* order.                                                                  *)
(* A client thread calls stream, handle, sync and destroy on the pools it   *)
(* obtained; the object keeps no record of being live, so destroy and the  *)
(* accessors can be called on a destroyed pool as well.                    *)
(***************************************************************************)
EXTENDS Integers, Sequences, FiniteSets, Bags, TLC

\* ------------------------------------------------------------------ bounds
NumThreads == 2
NumDevices == 2
MaxCalls == 2
MaxBindFaults == 1
MaxIdx == 17
MaxWork == 2
MaxDestroys == 3

\* --------------------------------------------------------------- constants
SMGR_N_STREAMS == 16

Threads == 1..NumThreads
Devices == 0..(NumDevices - 1)
Slots == 0..(SMGR_N_STREAMS - 1)

\* smgrs.end(): the lookup found no entry
End == 0
\* an indeterminate pointer or array element (uninitialised or torn read)
Wild == -1
\* no thread owns smgr_mtx
NoThread == 0
\* the CUDA default (NULL) stream, on which a fresh cuBLAS handle submits
DefaultStream == 0

\* the host framework's own stream and its cuBLAS handle, which exist before
\* the first pool is created
FrameworkStream == 1
FrameworkHandle == 1

\* the locals of sync when no sync call is in progress, and its last effects
NoSync == [pool |-> End, idx |-> 0, i |-> 0, waited |-> <<>>, failed |-> FALSE]
\* the client's last action was no call of stream or handle
NoCall == [op |-> "none", pool |-> End, idx |-> 0, val |-> 0]

VARIABLES
    smgrs,       \* the registry map: device -> pool id, End when absent
    smgr_mtx,    \* owner of the registry mutex, NoThread when free
    pools,       \* the CudaStreamManager objects, by pool id
    heap,        \* the memory of the arrays made by new[]: the cells of each
                 \* block by address, and the allocator's list of freed blocks
    phase,       \* by pool id: "setup", "live" or "destroyed"
    destroys,    \* history, by pool id: the calls of destroy() that returned
    pc,          \* per thread: position in getCudaStreamManager
    device,      \* per thread: the argument of the call in progress
    it,          \* per thread: the iterator of the last find
    smgr,        \* per thread: the local smgr of line 73
    raced,       \* per thread: the keys whose insertion the find in progress overlapped
    calls,       \* number of calls started so far
    curDevice,   \* per thread: the CUDA runtime's current device
    returned,    \* history: device -> set of values returned for it
    nStreams,    \* CUDA runtime: number of streams created so far
    hstream,     \* cuBLAS: handle id -> the stream it submits on
    bindFaults,  \* environment: number of failed cublasSetStream calls
    aborted,     \* the process was terminated (checkCudaErrors, crash)
    fw,          \* the host framework's current stream
    work,        \* the device: the bag of the streams of the unfinished work items
    sy,          \* per thread: the locals of the sync call in progress
    obs,         \* the call of stream or handle just made, and its result
    warm,        \* per thread: the entry of device existed when the call started
    released     \* CUDA runtime and cuBLAS: the bags of the streams and of the
                 \* handles passed to cudaStreamDestroy and cublasDestroy

vars == <<smgrs, smgr_mtx, pools, heap, phase, destroys, pc, device, it, smgr, raced,
          calls, curDevice, returned, nStreams, hstream, bindFaults, aborted,
          fw, work, sy, obs, warm, released>>

\* what getCudaStreamManager never touches
clientVars == <<fw, work, sy, obs, released>>

\* -------------------------------------------------------------- the object
\* CudaStreamManager(int device_): device(device_), use_default(false);
\* streams and handles are pointers that setup assigns.
NewManager(d) ==
    [device |-> d, use_default |-> FALSE, streams |-> Wild, handles |-> Wild]

\* an array of SMGR_N_STREAMS elements in memory that was never written
FreshArray == [k \in Slots |-> Wild]

\* the array a pointer points to; a pointer that was never assigned points
\* to nothing that can be told
Deref(h, a) == IF a \in DOMAIN h.cells THEN h.cells[a] ELSE FreshArray

\* the blocks of h that are in the allocator's free list
FreeBlocks(h) == {h.free[j] : j \in DOMAIN h.free}

\* new T[SMGR_N_STREAMS] on heap h (lines 45 and 46): the allocator hands out
\* the block it freed last, with whatever the block holds, or memory it has
\* not handed out before.  The elements are not initialised.
NewArray(h) ==
    {[addr |-> Len(h.cells) + 1,
      heap |-> [h EXCEPT !.cells = Append(@, FreshArray)]]}
        \cup (IF h.free = <<>>
              THEN {}
              ELSE {[addr |-> Head(h.free), heap |-> [h EXCEPT !.free = Tail(@)]]})

\* streams = new cudaStream_t[N]; handles = new cublasHandle_t[N] (lines
\* 45-46): the two pointers and the heap after the two allocations
Allocate(h) ==
    UNION {{[streams |-> x.addr, handles |-> y.addr, heap |-> y.heap]
            : y \in NewArray(x.heap)} : x \in NewArray(h)}

\* the two arrays of an allocation m as they are in memory
Arrays(m) ==
    [streams |-> Deref(m.heap, m.streams), handles |-> Deref(m.heap, m.handles)]

\* the heap after setup has written the arrays a through the pointers of m
Store(m, a) ==
    [m.heap EXCEPT !.cells[m.streams] = a.streams, !.cells[m.handles] = a.handles]

\* the object after setup has assigned its two pointers
Manager(d, m) ==
    [NewManager(d) EXCEPT !.streams = m.streams, !.handles = m.handles]

Init ==
    /\ smgrs = [d \in Devices |-> End]
    /\ smgr_mtx = NoThread
    /\ pools = <<>>
    /\ heap = [cells |-> <<>>, free |-> <<>>]
    /\ phase = <<>>
    /\ destroys = <<>>
    /\ pc = [t \in Threads |-> "idle"]
    /\ device = [t \in Threads |-> 0]
    /\ it = [t \in Threads |-> End]
    /\ smgr = [t \in Threads |-> End]
    /\ raced = [t \in Threads |-> {}]
    /\ calls = 0
    /\ curDevice = [t \in Threads |-> 0]
    /\ returned = [d \in Devices |-> {}]
    /\ nStreams = FrameworkStream
    /\ hstream = <<DefaultStream>>
    /\ bindFaults = 0
    /\ aborted = FALSE
    /\ fw = DefaultStream
    /\ work = EmptyBag
    /\ sy = [t \in Threads |-> NoSync]
    /\ obs = NoCall
    /\ warm = [t \in Threads |-> FALSE]
    /\ released = [streams |-> EmptyBag, handles |-> EmptyBag]

\* ------------------------------------------------- getCudaStreamManager
\* A caller enters getCudaStreamManager(d).
Call(t, d) ==
    /\ ~aborted
    /\ pc[t] = "idle"
    /\ calls < MaxCalls
    /\ pc' = [pc EXCEPT ![t] = "L68"]
    /\ device' = [device EXCEPT ![t] = d]
    /\ calls' = calls + 1
    /\ warm' = [warm EXCEPT ![t] = smgrs[d] # End]
    /\ UNCHANGED <<smgrs, smgr_mtx, pools, heap, phase, destroys, it, smgr, raced,
                   curDevice, returned, nStreams, hstream, bindFaults, aborted>>
    /\ UNCHANGED clientVars

FindInProgress(t) == pc[t] \in {"F68", "F71"}
\* the keys being inserted into the map
InsertionsInProgress == {device[u] : u \in {v \in Threads : pc[v] = "E74"}}

\* A variant of AfterFind without the second test (line 72): a thread that
\* missed at line 68 always creates a pool.
AfterFindNoRecheck(at, res) ==
    IF at = "F68" THEN (IF res = End THEN "L70" ELSE "L82") ELSE "L73"

\* Where the code goes after a find: lines 69 and 72 test it == smgrs.end().
AfterFind(at, res) ==
    IF at = "F68" THEN (IF res = End THEN "L70" ELSE "L82")
    ELSE (IF res = End THEN "L73" ELSE "L79")

\* smgrs.find(device) starts (line 68 without the mutex, line 71 with it).
FindBegin(t) ==
    /\ ~aborted
    /\ pc[t] \in {"L68", "L71"}
    /\ pc' = [pc EXCEPT ![t] = IF pc[t] = "L68" THEN "F68" ELSE "F71"]
    /\ raced' = [raced EXCEPT ![t] = InsertionsInProgress]
    /\ UNCHANGED <<smgrs, smgr_mtx, pools, heap, phase, destroys, device, it, smgr,
                   calls, warm, curDevice, returned, nStreams, hstream, bindFaults,
                   aborted>>
    /\ UNCHANGED clientVars

\* smgrs.find(device) ends having overlapped no insertion: it reads the map.
FindEnd(t) ==
    /\ ~aborted
    /\ FindInProgress(t)
    /\ raced[t] = {}
    /\ it' = [it EXCEPT ![t] = smgrs[device[t]]]
    /\ pc' = [pc EXCEPT ![t] = AfterFind(pc[t], smgrs[device[t]])]
    /\ UNCHANGED <<smgrs, smgr_mtx, pools, heap, phase, destroys, device, smgr, raced,
                   calls, warm, curDevice, returned, nStreams, hstream, bindFaults,
                   aborted>>
    /\ UNCHANGED clientVars

\* the values of the nodes of the map and of the nodes being linked into it
NodeValues ==
    ({smgrs[d] : d \in Devices} \ {End})
        \cup {smgr[u] : u \in {v \in Threads : pc[v] = "E74"}}

\* What a find that overlapped an insertion may yield: a miss or the entry of
\* the map; when the key looked up is the key being inserted, the new entry
\* or a node whose value is not yet written; and when the key looked up is in
\* the map, the value of another node (find reads the link to the node again
\* after it has compared the key, and the insertion changes the links).
RaceOutcomes(t) ==
    {End, smgrs[device[t]]}
        \cup (IF device[t] \in raced[t]
              THEN {Wild} \cup {smgr[u] : u \in {v \in Threads :
                                       pc[v] = "E74" /\ device[v] = device[t]}}
              ELSE {})
        \cup (IF smgrs[device[t]] # End THEN NodeValues ELSE {})

\* smgrs.find(device) ends having overlapped an insertion (a data race).
FindRaced(t) ==
    /\ ~aborted
    /\ FindInProgress(t)
    /\ raced[t] # {}
    /\ \E r \in RaceOutcomes(t) :
          /\ it' = [it EXCEPT ![t] = r]
          /\ pc' = [pc EXCEPT ![t] = AfterFind(pc[t], r)]
    /\ raced' = [raced EXCEPT ![t] = {}]
    /\ UNCHANGED <<smgrs, smgr_mtx, pools, heap, phase, destroys, device, smgr, calls, warm,
                   curDevice, returned, nStreams, hstream, bindFaults, aborted>>
    /\ UNCHANGED clientVars

\* ... or the racing find follows a dangling bucket pointer and crashes.
FindCrash(t) ==
    /\ ~aborted
    /\ FindInProgress(t)
    /\ raced[t] # {}
    /\ aborted' = TRUE
    /\ UNCHANGED <<smgrs, smgr_mtx, pools, heap, phase, destroys, pc, device, it, smgr,
                   raced, calls, warm, curDevice, returned, nStreams, hstream,
                   bindFaults>>
    /\ UNCHANGED clientVars

\* A variant of Lock that does not wait for the mutex to be free.
LockWithoutWaiting(t) ==
    /\ ~aborted
    /\ pc[t] = "L70"
    /\ smgr_mtx' = t
    /\ pc' = [pc EXCEPT ![t] = "L71"]
    /\ UNCHANGED <<smgrs, pools, heap, phase, destroys, device, it, smgr, raced, calls, warm,
                   curDevice, returned, nStreams, hstream, bindFaults, aborted>>
    /\ UNCHANGED clientVars

\* smgr_mtx.lock() (line 70)
Lock(t) ==
    /\ ~aborted
    /\ pc[t] = "L70"
    /\ smgr_mtx = NoThread
    /\ smgr_mtx' = t
    /\ pc' = [pc EXCEPT ![t] = "L71"]
    /\ UNCHANGED <<smgrs, pools, heap, phase, destroys, device, it, smgr, raced, calls, warm,
                   curDevice, returned, nStreams, hstream, bindFaults, aborted>>
    /\ UNCHANGED clientVars

\* checkCudaErrors(call) with a failing call: the error is reported and the
\* process is terminated.
checkCudaErrorsFails == aborted' = TRUE

\* A variant of SetupSlot that writes every stream and handle to slot 0.
SetupSlotZero(k) == 0

\* The slot written by cudaStreamCreate(streams + i) and cublasCreate(handles + i).
SetupSlot(k) == k

\* The loop of setup (lines 47-51) from iteration k up to, not including,
\* iteration upto, on the arrays p with ns streams and the handles hs created
\* so far.  Each iteration creates a stream and a handle in slot k and binds
\* the handle to the stream.  The status of cublasSetStream is not looked at:
\* when it fails (k \in bad) the handle keeps submitting on the default stream
\* and the loop goes on.
RECURSIVE SetupLoop(_, _, _, _, _, _)
SetupLoop(p, k, upto, ns, hs, bad) ==
    IF k >= upto
    THEN [pool |-> p, nStreams |-> ns, hstream |-> hs]
    ELSE SetupLoop([p EXCEPT !.streams[SetupSlot(k)] = ns + 1,
                             !.handles[SetupSlot(k)] = Len(hs) + 1],
                   k + 1, upto, ns + 1,
                   Append(hs, IF k \in bad THEN DefaultStream ELSE ns + 1),
                   bad)

\* CudaStreamManager::setup(device) running to completion on the arrays of
\* the allocation m.
setup(m, bad) ==
    SetupLoop(Arrays(m), 0, SMGR_N_STREAMS, nStreams, hstream, bad)

\* The slots whose cublasSetStream the environment may fail.
BindFailSlots == {2}
BindFailures == {bad \in SUBSET BindFailSlots :
                    bindFaults + Cardinality(bad) <= MaxBindFaults}

\* A variant of cudaSetDevice after which setup puts the caller's previous
\* current device back.
cudaSetDeviceRestored(t, d) == curDevice

\* cudaSetDevice(device) (line 44) succeeds: the current device of the calling
\* thread becomes d; setup does not change it back.
cudaSetDevice(t, d) == [curDevice EXCEPT ![t] = d]

\* new CudaStreamManager(device) (line 73): the object is allocated and its
\* constructor runs setup(device) to completion (lines 39-52): the device is
\* selected, then the N streams and handles are created.  Only the creating
\* thread can reach the object, so the construction is one step.
Construct(t, bad) ==
    /\ ~aborted
    /\ pc[t] = "L73"
    /\ \E m \in Allocate(heap) :
          LET r == setup(m, bad)
          IN /\ pools' = Append(pools, Manager(device[t], m))
             /\ heap' = Store(m, r.pool)
             /\ nStreams' = r.nStreams
             /\ hstream' = r.hstream
    /\ phase' = Append(phase, "live")
    /\ destroys' = Append(destroys, 0)
    /\ smgr' = [smgr EXCEPT ![t] = Len(pools) + 1]
    /\ curDevice' = cudaSetDevice(t, device[t])
    /\ bindFaults' = bindFaults + Cardinality(bad)
    /\ pc' = [pc EXCEPT ![t] = "L74"]
    /\ UNCHANGED <<smgrs, smgr_mtx, device, it, raced, calls, warm, returned,
                   aborted>>
    /\ UNCHANGED clientVars

\* cudaSetDevice(device) fails (line 44) in the constructor's setup.
SetDeviceFail(t) ==
    /\ ~aborted
    /\ pc[t] = "L73"
    /\ pools' = Append(pools, NewManager(device[t]))
    /\ phase' = Append(phase, "setup")
    /\ destroys' = Append(destroys, 0)
    /\ smgr' = [smgr EXCEPT ![t] = Len(pools) + 1]
    /\ checkCudaErrorsFails
    /\ UNCHANGED <<smgrs, smgr_mtx, heap, pc, device, it, raced, calls, warm,
                   curDevice, returned, nStreams, hstream, bindFaults>>
    /\ UNCHANGED clientVars

\* A variant of StreamCreateFail in which the status of cudaStreamCreate is
\* not checked: setup stops creating and returns to its caller.
StreamCreateFailUnchecked(t, f) ==
    /\ ~aborted
    /\ pc[t] = "L73"
    /\ \E m \in Allocate(heap) :
          LET r == SetupLoop(Arrays(m), 0, f, nStreams, hstream, {})
          IN /\ pools' = Append(pools, Manager(device[t], m))
             /\ heap' = Store(m, r.pool)
             /\ nStreams' = r.nStreams
             /\ hstream' = r.hstream
    /\ phase' = Append(phase, "setup")
    /\ destroys' = Append(destroys, 0)
    /\ smgr' = [smgr EXCEPT ![t] = Len(pools) + 1]
    /\ curDevice' = cudaSetDevice(t, device[t])
    /\ pc' = [pc EXCEPT ![t] = "L74"]
    /\ UNCHANGED <<smgrs, smgr_mtx, device, it, raced, calls, warm,
                   returned, bindFaults, aborted>>
    /\ UNCHANGED clientVars

\* cudaStreamCreate(streams + f) fails (line 48) in iteration f of setup.
StreamCreateFail(t, f) ==
    /\ ~aborted
    /\ pc[t] = "L73"
    /\ \E m \in Allocate(heap) :
          LET r == SetupLoop(Arrays(m), 0, f, nStreams, hstream, {})
          IN /\ pools' = Append(pools, Manager(device[t], m))
             /\ heap' = Store(m, r.pool)
             /\ nStreams' = r.nStreams
             /\ hstream' = r.hstream
    /\ phase' = Append(phase, "setup")
    /\ destroys' = Append(destroys, 0)
    /\ smgr' = [smgr EXCEPT ![t] = Len(pools) + 1]
    /\ curDevice' = cudaSetDevice(t, device[t])
    /\ checkCudaErrorsFails
    /\ UNCHANGED <<smgrs, smgr_mtx, pc, device, it, raced, calls, warm,
                   returned, bindFaults>>
    /\ UNCHANGED clientVars

\* cublasCreate(handles + f) fails (line 49) in iteration f of setup, after
\* cudaStreamCreate(streams + f) succeeded.
HandleCreateFail(t, f) ==
    /\ ~aborted
    /\ pc[t] = "L73"
    /\ \E m \in Allocate(heap) :
          LET r == SetupLoop(Arrays(m), 0, f, nStreams, hstream, {})
          IN /\ pools' = Append(pools, Manager(device[t], m))
             /\ heap' = Store(m, [r.pool EXCEPT
                                     !.streams[SetupSlot(f)] = r.nStreams + 1])
             /\ nStreams' = r.nStreams + 1
             /\ hstream' = r.hstream
    /\ phase' = Append(phase, "setup")
    /\ destroys' = Append(destroys, 0)
    /\ smgr' = [smgr EXCEPT ![t] = Len(pools) + 1]
    /\ curDevice' = cudaSetDevice(t, device[t])
    /\ checkCudaErrorsFails
    /\ UNCHANGED <<smgrs, smgr_mtx, pc, device, it, raced, calls, warm,
                   returned, bindFaults>>
    /\ UNCHANGED clientVars

\* smgrs.emplace(device, smgr) starts (line 74): every find in progress in
\* another thread now overlaps an insertion.
EmplaceBegin(t) ==
    /\ ~aborted
    /\ pc[t] = "L74"
    /\ pc' = [pc EXCEPT ![t] = "E74"]
    /\ raced' = [u \in Threads |->
                    IF u # t /\ FindInProgress(u)
                    THEN raced[u] \cup {device[t]}
                    ELSE raced[u]]
    /\ UNCHANGED <<smgrs, smgr_mtx, pools, heap, phase, destroys, device, it, smgr,
                   calls, warm, curDevice, returned, nStreams, hstream, bindFaults,
                   aborted>>
    /\ UNCHANGED clientVars

\* std::unordered_map::emplace: inserts unless the key is present.
emplace(m, k, v) == IF m[k] = End THEN [m EXCEPT ![k] = v] ELSE m

\* smgrs.emplace(device, smgr) ends (line 74).
EmplaceEnd(t) ==
    /\ ~aborted
    /\ pc[t] = "E74"
    /\ smgrs' = emplace(smgrs, device[t], smgr[t])
    /\ pc' = [pc EXCEPT ![t] = "L75"]
    /\ UNCHANGED <<smgr_mtx, pools, heap, phase, destroys, device, it, smgr, raced,
                   calls, warm, curDevice, returned, nStreams, hstream, bindFaults,
                   aborted>>
    /\ UNCHANGED clientVars

\* smgr_mtx.unlock() (line 75 after the insertion, line 79 after a hit).
Unlock(t) ==
    /\ ~aborted
    /\ pc[t] \in {"L75", "L79"}
    /\ smgr_mtx' = NoThread
    /\ pc' = [pc EXCEPT ![t] = IF pc[t] = "L75" THEN "L77" ELSE "L82"]
    /\ UNCHANGED <<smgrs, pools, heap, phase, destroys, device, it, smgr, raced, calls, warm,
                   curDevice, returned, nStreams, hstream, bindFaults, aborted>>
    /\ UNCHANGED clientVars

\* The value returned: smgr at line 77, it->second at line 82.
ReturnValue(t) == IF pc[t] = "L77" THEN smgr[t] ELSE it[t]

\* return smgr (line 77) or return it->second (line 82).
Return(t) ==
    /\ ~aborted
    /\ pc[t] \in {"L77", "L82"}
    /\ it' = [it EXCEPT ![t] = End]
    /\ smgr' = [smgr EXCEPT ![t] = End]
    /\ returned' = [returned EXCEPT ![device[t]] = @ \cup {ReturnValue(t)}]
    /\ pc' = [pc EXCEPT ![t] = "idle"]
    /\ warm' = [warm EXCEPT ![t] = FALSE]
    /\ UNCHANGED <<smgrs, smgr_mtx, pools, heap, phase, destroys, device, raced,
                   calls, curDevice, nStreams, hstream, bindFaults, aborted>>
    /\ UNCHANGED clientVars

getCudaStreamManager(t) ==
    \/ \E d \in Devices : Call(t, d)
    \/ FindBegin(t)
    \/ FindEnd(t)
    \/ FindRaced(t)
    \/ FindCrash(t)
    \/ Lock(t)
    \/ \E bad \in BindFailures : Construct(t, bad)
    \/ SetDeviceFail(t)
    \/ \E f \in Slots : StreamCreateFail(t, f)
    \/ \E f \in Slots : HandleCreateFail(t, f)
    \/ EmplaceBegin(t)
    \/ EmplaceEnd(t)
    \/ Unlock(t)
    \/ Return(t)

Next == \E t \in Threads : getCudaStreamManager(t)

Spec == Init /\ [][Next]_vars

\* The steps a thread takes by itself once it is inside getCudaStreamManager,
\* with setup running to completion.
Proceed(t) ==
    \/ FindBegin(t)
    \/ FindEnd(t)
    \/ FindRaced(t)
    \/ \E bad \in BindFailures : Construct(t, bad)
    \/ EmplaceBegin(t)
    \/ EmplaceEnd(t)
    \/ Unlock(t)
    \/ Return(t)

\* Concurrent calls of getCudaStreamManager in which every step of setup
\* succeeds or is not checked: setup terminates.
NextFair ==
    \E t \in Threads :
        \/ \E d \in Devices : Call(t, d)
        \/ Proceed(t)
        \/ FindCrash(t)
        \/ Lock(t)

\* Fair scheduling: a thread that can take a step takes one, and a thread
\* that waits at smgr_mtx.lock() gets the mutex if it is free again and again.
SpecFair ==
    /\ Init
    /\ [][NextFair]_vars
    /\ \A t \in Threads : WF_vars(Proceed(t)) /\ SF_vars(Lock(t))

\* The state after one call getCudaStreamManager(0), made by thread 1 on the
\* empty registry, has returned with every step of setup succeeding: the
\* registry holds the pool of device 0.  calls counts the calls started from
\* here on.
InitWarm ==
    LET r == SetupLoop([streams |-> FreshArray, handles |-> FreshArray], 0,
                       SMGR_N_STREAMS, FrameworkStream, <<DefaultStream>>, {})
    IN /\ smgrs = [d \in Devices |-> IF d = 0 THEN 1 ELSE End]
       /\ smgr_mtx = NoThread
       /\ pools = <<Manager(0, [streams |-> 1, handles |-> 2])>>
       /\ heap = [cells |-> <<r.pool.streams, r.pool.handles>>, free |-> <<>>]
       /\ phase = <<"live">>
       /\ destroys = <<0>>
       /\ pc = [t \in Threads |-> "idle"]
       /\ device = [t \in Threads |-> 0]
       /\ it = [t \in Threads |-> End]
       /\ smgr = [t \in Threads |-> End]
       /\ raced = [t \in Threads |-> {}]
       /\ calls = 0
       /\ curDevice = [t \in Threads |-> 0]
       /\ returned = [d \in Devices |-> IF d = 0 THEN {1} ELSE {}]
       /\ nStreams = r.nStreams
       /\ hstream = r.hstream
       /\ bindFaults = 0
       /\ aborted = FALSE
       /\ fw = DefaultStream
       /\ work = EmptyBag
       /\ sy = [t \in Threads |-> NoSync]
       /\ obs = NoCall
       /\ warm = [t \in Threads |-> FALSE]
       /\ released = [streams |-> EmptyBag, handles |-> EmptyBag]

\* Concurrent calls of getCudaStreamManager on a registry that holds the pool
\* of device 0.
SpecWarm == InitWarm /\ [][Next]_vars

\* ------------------------------------------------ CudaStreamManager's use
\* The client of the pools: one host thread that obtains pools from
\* getCudaStreamManager and calls stream, handle and sync on them.
Client == 1
\* the indices the client passes to stream and handle, and to sync
AccessIdx == {2, 10, SMGR_N_STREAMS + 2}
SyncArgs == {-1, 0, 5, SMGR_N_STREAMS + 1}

\* the pools a call of getCudaStreamManager has returned
HeldPools == {p \in UNION {returned[d] : d \in Devices} : p \in 1..Len(pools)}

\* a[k] of a C array: a read outside the array yields an indeterminate value
ArrayRead(a, k) == IF k \in DOMAIN a THEN a[k] ELSE Wild

\* A variant of StreamSlot without the modulo.
StreamSlotNoWrap(idx) == idx

\* idx % SMGR_N_STREAMS (lines 19 and 26); idx is a size_t
StreamSlot(idx) == idx % SMGR_N_STREAMS

\* c10::cuda::getCurrentCUDAStream().stream() (line 17)
getCurrentCUDAStream == fw

\* at::cuda::getCurrentCUDABlasHandle() (line 24): the framework's handle
getCurrentCUDABlasHandle == FrameworkHandle

\* the arrays of pool p as a read through its pointers finds them
Streams(p) == Deref(heap, pools[p].streams)
Handles(p) == Deref(heap, pools[p].handles)

\* A variant of stream that ignores use_default.
streamIgnoringDefault(p, idx) == ArrayRead(Streams(p), StreamSlot(idx))

\* CudaStreamManager::stream(idx) (lines 15-20)
stream(p, idx) ==
    IF pools[p].use_default
    THEN getCurrentCUDAStream
    ELSE ArrayRead(Streams(p), StreamSlot(idx))

\* CudaStreamManager::handle(idx) (lines 22-27)
handle(p, idx) ==
    IF pools[p].use_default
    THEN getCurrentCUDABlasHandle
    ELSE ArrayRead(Handles(p), StreamSlot(idx))

\* A call of stream or handle returns val: its record replaces the last one
\* and the locals of an earlier sync are gone.
Called(t, op, p, idx, val) ==
    /\ obs' = [op |-> op, pool |-> p, idx |-> idx, val |-> val]
    /\ sy' = [sy EXCEPT ![t] = NoSync]

\* The effect of at::cuda::getCurrentCUDABlasHandle() when handle(idx) is
\* called on p: in default mode the framework binds its handle to the
\* stream that is current.
HandleBindings(p) ==
    IF pools[p].use_default
    THEN [hstream EXCEPT ![getCurrentCUDABlasHandle] = getCurrentCUDAStream]
    ELSE hstream

\* a client may call a pool it holds while the pool is live
MayCall(t, p) ==
    /\ ~aborted
    /\ pc[t] = "idle"
    /\ p \in HeldPools
    /\ phase[p] = "live"

\* A variant of StreamCall that creates a new stream for the slot at every
\* call and stores it in the array.
StreamCallRecreating(t, p, idx) ==
    /\ MayCall(t, p)
    /\ Called(t, "stream", p, idx, nStreams + 1)
    /\ heap' = [heap EXCEPT
                   !.cells[pools[p].streams][StreamSlot(idx)] = nStreams + 1]
    /\ nStreams' = nStreams + 1
    /\ UNCHANGED <<smgrs, smgr_mtx, pools, phase, destroys, pc, device, it, smgr, raced,
                   calls, warm, released, curDevice, returned, hstream,
                   bindFaults, aborted, fw, work>>

\* p->stream(idx)
StreamCall(t, p, idx) ==
    /\ MayCall(t, p)
    /\ Called(t, "stream", p, idx, stream(p, idx))
    /\ UNCHANGED <<smgrs, smgr_mtx, pools, heap, phase, destroys, pc, device, it, smgr, raced,
                   calls, warm, released, curDevice, returned, nStreams, hstream, bindFaults,
                   aborted, fw, work>>

\* p->handle(idx).  In default mode the framework hands out its own handle,
\* bound to the stream that is current at the time of the call.
HandleCall(t, p, idx) ==
    /\ MayCall(t, p)
    /\ Called(t, "handle", p, idx, handle(p, idx))
    /\ hstream' = HandleBindings(p)
    /\ UNCHANGED <<smgrs, smgr_mtx, pools, heap, phase, destroys, pc, device, it, smgr, raced,
                   calls, warm, released, curDevice, returned, nStreams, bindFaults, aborted,
                   fw, work>>

\* The stream on which work submitted to p with index idx runs: stream(idx)
\* itself, or the stream that handle(idx) is bound to.
TargetStream(p, idx, via) ==
    IF via = "stream"
    THEN stream(p, idx)
    ELSE ArrayRead(HandleBindings(p), handle(p, idx))

\* The client submits a work item: a kernel launched on p->stream(idx), or a
\* cuBLAS call through p->handle(idx).
Submit(t, p, idx, via) ==
    /\ MayCall(t, p)
    /\ BagCardinality(work) < MaxWork
    /\ work' = work (+) SetToBag({TargetStream(p, idx, via)})
    /\ hstream' = IF via = "handle" THEN HandleBindings(p) ELSE hstream
    /\ sy' = [sy EXCEPT ![t] = NoSync]
    /\ obs' = NoCall
    /\ UNCHANGED <<smgrs, smgr_mtx, pools, heap, phase, destroys, pc, device, it, smgr, raced,
                   calls, warm, released, curDevice, returned, nStreams, bindFaults, aborted,
                   fw>>

\* The device completes the oldest unfinished work item of stream s (a stream
\* runs its work in FIFO order; streams run in parallel).
DeviceComplete(s) ==
    /\ ~aborted
    /\ BagIn(s, work)
    /\ work' = work (-) SetToBag({s})
    /\ UNCHANGED <<smgrs, smgr_mtx, pools, heap, phase, destroys, pc, device, it, smgr, raced,
                   calls, warm, released, curDevice, returned, nStreams, hstream, bindFaults,
                   aborted, fw, sy, obs>>

\* all work submitted to stream s has completed
StreamDrained(s) == ~BagIn(s, work)

\* sync(idx) in default mode (lines 31-33): returns at once.
SyncDefault(t, p, k) ==
    /\ MayCall(t, p)
    /\ pools[p].use_default
    /\ sy' = [sy EXCEPT ![t] = [pool |-> p, idx |-> k, i |-> 0,
                                waited |-> <<>>, failed |-> FALSE]]
    /\ obs' = NoCall
    /\ UNCHANGED <<smgrs, smgr_mtx, pools, heap, phase, destroys, pc, device, it, smgr, raced,
                   calls, warm, released, curDevice, returned, nStreams, hstream, bindFaults,
                   aborted, fw, work>>

\* sync(idx) on pooled streams enters its loop (line 34, i = 0).
SyncEnter(t, p, k) ==
    /\ MayCall(t, p)
    /\ ~pools[p].use_default
    /\ pc' = [pc EXCEPT ![t] = "L34"]
    /\ sy' = [sy EXCEPT ![t] = [pool |-> p, idx |-> k, i |-> 0,
                                waited |-> <<>>, failed |-> FALSE]]
    /\ obs' = NoCall
    /\ UNCHANGED <<smgrs, smgr_mtx, pools, heap, phase, destroys, device, it, smgr, raced,
                   calls, warm, released, curDevice, returned, nStreams, hstream, bindFaults,
                   aborted, fw, work>>

\* A variant of SyncContinues without the clamp to the pool size.
SyncContinuesUnclamped(i, idx) == i < idx

\* the loop condition of sync (line 34): i < idx && i < SMGR_N_STREAMS
SyncContinues(i, idx) == i < idx /\ i < SMGR_N_STREAMS

\* the read of streams[i] of pool p in sync (line 35): what the memory the
\* pointer points to holds, whether or not the array still exists
StreamRead(p, i) == ArrayRead(Streams(p), i)

\* cudaStreamSynchronize(streams[i]) (line 35) returns once the stream has
\* drained; then ++i.
SyncWait(t) ==
    /\ ~aborted
    /\ pc[t] = "L34"
    /\ SyncContinues(sy[t].i, sy[t].idx)
    /\ LET s == StreamRead(sy[t].pool, sy[t].i)
       IN /\ StreamDrained(s)
          /\ sy' = [sy EXCEPT ![t].i = @ + 1, ![t].waited = Append(@, s)]
    /\ UNCHANGED <<smgrs, smgr_mtx, pools, heap, phase, destroys, pc, device, it, smgr, raced,
                   calls, warm, released, curDevice, returned, nStreams, hstream, bindFaults,
                   aborted, fw, work, obs>>

\* cudaStreamSynchronize(streams[i]) (line 35) returns an error status: the
\* work of the stream has ended in a device failure.  The status is not
\* looked at; then ++i.
SyncWaitFail(t) ==
    /\ ~aborted
    /\ pc[t] = "L34"
    /\ SyncContinues(sy[t].i, sy[t].idx)
    /\ LET s == StreamRead(sy[t].pool, sy[t].i)
       IN /\ StreamDrained(s)
          /\ sy' = [sy EXCEPT ![t].i = @ + 1, ![t].waited = Append(@, s),
                              ![t].failed = TRUE]
    /\ UNCHANGED <<smgrs, smgr_mtx, pools, heap, phase, destroys, pc, device, it, smgr, raced,
                   calls, warm, released, curDevice, returned, nStreams,
                   hstream, bindFaults, aborted, fw, work, obs>>

\* What sync(idx) hands to its caller at line 37: sync is a void function and
\* throws nothing, so the caller gets no error.
SyncSurfaces(t) == FALSE

\* the loop of sync ends and sync returns (line 37)
SyncReturn(t) ==
    /\ ~aborted
    /\ pc[t] = "L34"
    /\ ~SyncContinues(sy[t].i, sy[t].idx)
    /\ pc' = [pc EXCEPT ![t] = "idle"]
    /\ UNCHANGED <<smgrs, smgr_mtx, pools, heap, phase, destroys, device, it, smgr, raced,
                   calls, warm, released, curDevice, returned, nStreams, hstream, bindFaults,
                   aborted, fw, work, sy, obs>>

\* The use_default toggle: set once, at configuration time, before any work
\* is dispatched.
SetUseDefault(t, p) ==
    /\ MayCall(t, p)
    /\ ~pools[p].use_default
    /\ work = EmptyBag
    /\ pools' = [pools EXCEPT ![p].use_default = TRUE]
    /\ sy' = [sy EXCEPT ![t] = NoSync]
    /\ obs' = NoCall
    /\ UNCHANGED <<smgrs, smgr_mtx, heap, phase, destroys, pc, device, it, smgr, raced,
                   calls, warm, released, curDevice, returned, nStreams, hstream, bindFaults,
                   aborted, fw, work>>

\* The host framework makes its own stream current instead of the default
\* stream.
FrameworkSetStream ==
    /\ ~aborted
    /\ fw = DefaultStream
    /\ fw' = FrameworkStream
    /\ UNCHANGED <<smgrs, smgr_mtx, pools, heap, phase, destroys, pc, device, it, smgr, raced,
                   calls, warm, released, curDevice, returned, nStreams, hstream, bindFaults,
                   aborted, work, sy, obs>>

\* a client may call destroy on a pool it holds: nothing in the object
\* records whether it is live
MayDestroy(t, p) ==
    /\ ~aborted
    /\ pc[t] = "idle"
    /\ p \in HeldPools

\* The slots of a block the allocator writes its own data to when the block
\* is freed: the first two (the link and the key of its free list).
OverwrittenSlots == {0, 1}

\* the arrays of pool p as the loop of destroy reads them (lines 56-57):
\* what the memory its pointers point to holds
ArraysRead(p) == [streams |-> Streams(p), handles |-> Handles(p)]

\* delete[] of the array at address a on heap h: the block goes to the head
\* of the free list and the allocator overwrites its first slots.  A block
\* that is free already stays as it is.
DeleteArray(h, a) ==
    IF a \notin DOMAIN h.cells \/ a \in FreeBlocks(h)
    THEN h
    ELSE [h EXCEPT !.free = <<a>> \o @,
                   !.cells[a] = [k \in Slots |->
                                    IF k \in OverwrittenSlots THEN Wild ELSE @[k]]]

\* What delete[] streams; delete[] handles (lines 59-60) may do: arrays that
\* are allocated are freed; on an array that is free already, whichever pool
\* freed it, it is a double free, which the allocator lets pass or answers by
\* terminating the process.
DeleteOutcomes(p) ==
    IF {pools[p].streams, pools[p].handles} \cap FreeBlocks(heap) = {}
    THEN {FALSE}
    ELSE {FALSE, TRUE}

\* A variant of DestroySlot that passes slot 0 to every release.
DestroySlotZero(k) == 0

\* The slot released by cudaStreamDestroy(streams[i]) and
\* cublasDestroy(handles[i]) (lines 56-57).
DestroySlot(k) == k

\* The loop of destroy (lines 55-58) from iteration k up to, not including,
\* iteration upto, on the object p, with rel the releases made so far.
RECURSIVE DestroyLoop(_, _, _, _)
DestroyLoop(p, k, upto, rel) ==
    IF k >= upto
    THEN rel
    ELSE DestroyLoop(p, k + 1, upto,
             [streams |-> rel.streams
                            (+) SetToBag({ArrayRead(p.streams, DestroySlot(k))}),
              handles |-> rel.handles
                            (+) SetToBag({ArrayRead(p.handles, DestroySlot(k))})])

\* CudaStreamManager::destroy() runs through its loop (lines 54-61): every
\* stream and handle read from the arrays is released, then the arrays are
\* deleted.  The object keeps its dangling array pointers, so on a pool that
\* was destroyed before the loop reads memory that is free or that a pool set
\* up later has been given, and the deletes free that pool's arrays or are a
\* double free.
Destroy(t, p) ==
    /\ MayDestroy(t, p)
    /\ BagCardinality(released.streams) < MaxDestroys * SMGR_N_STREAMS
    /\ released' = DestroyLoop(ArraysRead(p), 0, SMGR_N_STREAMS, released)
    /\ \E crash \in DeleteOutcomes(p) :
          /\ aborted' = crash
          /\ heap' = IF crash
                     THEN heap
                     ELSE DeleteArray(DeleteArray(heap, pools[p].streams),
                                      pools[p].handles)
          /\ destroys' = [destroys EXCEPT ![p] = IF crash THEN @ ELSE @ + 1]
    /\ phase' = [phase EXCEPT ![p] = "destroyed"]
    /\ sy' = [sy EXCEPT ![t] = NoSync]
    /\ obs' = NoCall
    /\ UNCHANGED <<smgrs, smgr_mtx, pools, pc, device, it, smgr, raced,
                   calls, warm, curDevice, returned, nStreams, hstream,
                   bindFaults, fw, work>>

\* cudaStreamDestroy(streams[f]) (line 56) or, with h, cublasDestroy(handles[f])
\* (line 57) fails in iteration f of destroy: checkCudaErrors ends the process
\* with the releases made so far.
DestroyFail(t, p, f, h) ==
    /\ MayDestroy(t, p)
    /\ LET a == ArraysRead(p)
           rel == DestroyLoop(a, 0, f, released)
       IN released' =
             IF h THEN [rel EXCEPT !.streams =
                           @ (+) SetToBag({ArrayRead(a.streams, DestroySlot(f))})]
                  ELSE rel
    /\ checkCudaErrorsFails
    /\ sy' = [sy EXCEPT ![t] = NoSync]
    /\ obs' = NoCall
    /\ UNCHANGED <<smgrs, smgr_mtx, pools, heap, phase, destroys, pc, device, it, smgr, raced,
                   calls, warm, curDevice, returned, nStreams, hstream,
                   bindFaults, fw, work>>

\* p->stream(idx) or p->handle(idx) on a pool that was destroyed: the
\* accessor reads through the dangling pointer.
StaleCall(t, p, op, idx) ==
    /\ MayDestroy(t, p)
    /\ phase[p] = "destroyed"
    /\ Called(t, op, p, idx,
              IF op = "stream" THEN stream(p, idx) ELSE handle(p, idx))
    /\ UNCHANGED <<smgrs, smgr_mtx, pools, heap, phase, destroys, pc, device, it, smgr, raced,
                   calls, warm, released, curDevice, returned, nStreams,
                   hstream, bindFaults, aborted, fw, work>>

\* p->sync(idx) on a pool whose arrays destroy deleted: nothing in sync looks
\* at the state of the pool, the call enters its loop (line 34, i = 0).
StaleSync(t, p, k) ==
    /\ MayDestroy(t, p)
    /\ phase[p] = "destroyed"
    /\ ~pools[p].use_default
    /\ pc' = [pc EXCEPT ![t] = "L34"]
    /\ sy' = [sy EXCEPT ![t] = [pool |-> p, idx |-> k, i |-> 0,
                                waited |-> <<>>, failed |-> FALSE]]
    /\ obs' = NoCall
    /\ UNCHANGED <<smgrs, smgr_mtx, pools, heap, phase, destroys, device, it, smgr, raced,
                   calls, warm, released, curDevice, returned, nStreams,
                   hstream, bindFaults, aborted, fw, work>>

\* getCudaStreamManager called by a single thread: no find overlaps an
\* insertion.
getCudaStreamManagerAlone(t) ==
    \/ \E d \in Devices : Call(t, d)
    \/ FindBegin(t)
    \/ FindEnd(t)
    \/ Lock(t)
    \/ \E bad \in BindFailures : Construct(t, bad)
    \/ SetDeviceFail(t)
    \/ \E f \in Slots : StreamCreateFail(t, f)
    \/ \E f \in Slots : HandleCreateFail(t, f)
    \/ EmplaceBegin(t)
    \/ EmplaceEnd(t)
    \/ Unlock(t)
    \/ Return(t)

\* getCudaStreamManager called by a single thread, every call that setup
\* makes succeeding.
getCudaStreamManagerSucceeding(t) ==
    \/ \E d \in Devices : Call(t, d)
    \/ FindBegin(t)
    \/ FindEnd(t)
    \/ Lock(t)
    \/ Construct(t, {})
    \/ EmplaceBegin(t)
    \/ EmplaceEnd(t)
    \/ Unlock(t)
    \/ Return(t)

\* A client that uses the accessors and the use_default mode.
NextPool ==
    \/ getCudaStreamManagerAlone(Client)
    \/ \E p \in 1..Len(pools), idx \in AccessIdx : StreamCall(Client, p, idx)
    \/ \E p \in 1..Len(pools), idx \in AccessIdx : HandleCall(Client, p, idx)
    \/ \E p \in 1..Len(pools), k \in SyncArgs : SyncDefault(Client, p, k)
    \/ \E p \in 1..Len(pools) : SetUseDefault(Client, p)
    \/ FrameworkSetStream

SpecPool == Init /\ [][NextPool]_vars

\* A client that submits work on the pooled streams and synchronizes.
NextSync ==
    \/ getCudaStreamManagerAlone(Client)
    \/ \E p \in 1..Len(pools), idx \in AccessIdx, via \in {"stream", "handle"} :
          Submit(Client, p, idx, via)
    \/ \E s \in BagToSet(work) : DeviceComplete(s)
    \/ \E p \in 1..Len(pools), k \in SyncArgs : SyncEnter(Client, p, k)
    \/ SyncWait(Client)
    \/ SyncWaitFail(Client)
    \/ SyncReturn(Client)

SpecSync == Init /\ [][NextSync]_vars

\* the indices and the argument of sync of the client that destroys pools
LifeIdx == {2, SMGR_N_STREAMS}
LifeSyncArgs == {3}
DestroyFailSlots == {0, 5}

\* A client that uses a pool and destroys it.
NextLife ==
    \/ getCudaStreamManagerSucceeding(Client)
    \/ \E p \in 1..Len(pools), idx \in LifeIdx : StreamCall(Client, p, idx)
    \/ \E p \in 1..Len(pools), idx \in LifeIdx : HandleCall(Client, p, idx)
    \/ \E p \in 1..Len(pools), k \in LifeSyncArgs : SyncEnter(Client, p, k)
    \/ SyncWait(Client)
    \/ SyncWaitFail(Client)
    \/ SyncReturn(Client)
    \/ \E p \in 1..Len(pools) : Destroy(Client, p)
    \/ \E p \in 1..Len(pools), f \in DestroyFailSlots, h \in BOOLEAN :
          DestroyFail(Client, p, f, h)
    \/ \E p \in 1..Len(pools), op \in {"stream", "handle"}, idx \in LifeIdx :
          StaleCall(Client, p, op, idx)
    \/ \E p \in 1..Len(pools), k \in LifeSyncArgs : StaleSync(Client, p, k)

SpecLife == Init /\ [][NextLife]_vars

\* ================================================================ claims
PoolIds == 1..Len(pools)
PoolsOf(d) == {p \in PoolIds : pools[p].device = d}
\* the pools a caller can see: those in the registry and those returned
Visible ==
    {smgrs[d] : d \in Devices} \cup UNION {returned[d] : d \in Devices}
LivePools == {p \in PoolIds : phase[p] = "live"}
Pooled == {p \in LivePools : ~pools[p].use_default}
Min(a, b) == IF a < b THEN a ELSE b
Max(a, b) == IF a > b THEN a ELSE b

\* C1: for every device d, all calls of getCudaStreamManager(d) that return
\* yield the same value, whether they race on first touch or run after the
\* entry exists.
C1_SamePoolReturned == \A d \in Devices : Cardinality(returned[d]) <= 1

\* C2: however many threads call getCudaStreamManager(d) concurrently for a
\* device without an entry, at most one CudaStreamManager is ever constructed
\* (and set up) for d, and exactly one once d has an entry or a call for d
\* has returned.
C2_OnePoolPerDevice ==
    \A d \in Devices :
        /\ Cardinality(PoolsOf(d)) <= 1
        /\ (smgrs[d] # End \/ returned[d] # {}) => Cardinality(PoolsOf(d)) = 1

\* C2 witness: a thread that missed at line 68 and then waited for the mutex
\* finds, under the mutex, the entry its racing peer created: one pool exists.
C2_Witness ==
    \E t \in Threads :
        /\ pc[t] = "L79"
        /\ Cardinality(PoolsOf(device[t])) = 1
        /\ \E u \in Threads \ {t} : device[u] = device[t] /\ pc[u] \in {"L77", "idle"}

\* C3: a pool that is in the registry or was returned to a caller has
\* completed setup successfully: all N streams and N handles are created and
\* every handle is bound to its stream.
C3_VisibleOnlyAfterSetup ==
    \A p \in Visible \cap PoolIds :
        /\ phase[p] = "live"
        /\ \A k \in Slots :
              /\ Streams(p)[k] # Wild
              /\ Handles(p)[k] # Wild
              /\ ArrayRead(hstream, Handles(p)[k]) = Streams(p)[k]

\* C4: no lookup of the registry map (line 68 or line 71) is in progress in
\* one thread while an insertion (line 74) is in progress in another.
C4_NoLookupDuringInsertion ==
    \A t \in Threads, u \in Threads :
        ~(t # u /\ FindInProgress(t) /\ pc[u] = "E74")

\* C5: with use_default false, stream(i) is streams[i mod N] and handle(i) is
\* handles[i mod N]: the slot is within [0, N), and index i + N yields the
\* same stream and handle as index i.
C5_ModuloSlotting ==
    /\ obs.op \in {"stream", "handle"} /\ obs.pool \in Pooled =>
          /\ obs.idx % SMGR_N_STREAMS \in Slots
          /\ obs.op = "stream" =>
                obs.val = Streams(obs.pool)[obs.idx % SMGR_N_STREAMS]
          /\ obs.op = "handle" =>
                obs.val = Handles(obs.pool)[obs.idx % SMGR_N_STREAMS]
    /\ \A p \in Pooled : \A n \in 0..MaxIdx :
          /\ StreamSlot(n) \in Slots
          /\ stream(p, n) = stream(p, n + SMGR_N_STREAMS)
          /\ handle(p, n) = handle(p, n + SMGR_N_STREAMS)
          /\ stream(p, n) # Wild /\ handle(p, n) # Wild

\* C5 witness: stream was called with an index beyond N and returned the
\* stream of the slot the index wraps to.
C5_Witness ==
    /\ obs.op = "stream"
    /\ obs.pool \in Pooled
    /\ obs.idx >= SMGR_N_STREAMS
    /\ obs.val = Streams(obs.pool)[obs.idx - SMGR_N_STREAMS]

\* C6: in every live pool, for every slot, handles[i] is bound to streams[i],
\* so that handle(idx) submits on stream(idx) for every idx.
C6_HandleBoundToStream ==
    \A p \in LivePools :
        /\ \A k \in Slots :
              ArrayRead(hstream, Handles(p)[k]) = Streams(p)[k]
        /\ \A n \in 0..MaxIdx :
              TargetStream(p, n, "handle") = TargetStream(p, n, "stream")

\* C7: with use_default false, a live pool holds N distinct streams and N
\* distinct handles: stream(i) # stream(j) whenever i mod N # j mod N.
C7_DistinctSlots ==
    \A p \in Pooled :
        /\ \A j \in Slots, k \in Slots :
              j # k => /\ Streams(p)[j] # Streams(p)[k]
                       /\ Handles(p)[j] # Handles(p)[k]
        /\ \A m \in 0..MaxIdx, n \in 0..MaxIdx :
              (m < n /\ m % SMGR_N_STREAMS # n % SMGR_N_STREAMS) =>
                  /\ stream(p, m) # stream(p, n)
                  /\ handle(p, m) # handle(p, n)

\* C7 witness: on a live pool in pooled mode, stream was called and returned
\* a stream other than that of another slot.
C7_Witness ==
    /\ obs.op = "stream"
    /\ obs.pool \in Pooled
    /\ obs.idx = 10
    /\ obs.val # stream(obs.pool, 2)
    /\ obs.val # Wild

\* the number of streams sync(k) is to wait on: k clamped to [0, N]
Clamp(k) == Min(Max(k, 0), SMGR_N_STREAMS)

\* C8: with use_default false, sync(k) synchronizes exactly the streams of
\* slots 0 .. min(k, N) - 1, in ascending slot order: at every point of the
\* call the streams waited on are those of slots 0 .. i - 1 with i <= the
\* clamped k, and when the call has returned i is the clamped k.
C8_SyncPrefix ==
    \A t \in Threads :
        (sy[t].pool \in PoolIds /\ ~pools[sy[t].pool].use_default) =>
            /\ sy[t].i <= Clamp(sy[t].idx)
            /\ sy[t].waited =
                  [j \in 1..sy[t].i |-> Streams(sy[t].pool)[j - 1]]
            /\ pc[t] # "L34" => sy[t].i = Clamp(sy[t].idx)

\* C8 witness: sync(N + 1) has returned having waited on the N streams.
C8_Witness ==
    \E t \in Threads :
        /\ pc[t] = "idle"
        /\ sy[t].pool \in Pooled
        /\ sy[t].idx > SMGR_N_STREAMS
        /\ Len(sy[t].waited) = SMGR_N_STREAMS

\* the streams of slots 0 .. min(k, N) - 1 of pool p
PrefixStreams(p, k) == {Streams(p)[j] : j \in 0..(Clamp(k) - 1)}

\* C9: with use_default false, when sync(upto) has returned, no work
\* submitted before the call to one of streams[0 .. min(upto, N) - 1] is
\* unfinished; and after sync(N) or more, no work submitted through handle(i),
\* whatever i is, is unfinished.
C9_SyncCompletesPriorWork ==
    \A t \in Threads :
        (pc[t] # "L34" /\ sy[t].pool \in Pooled) =>
            /\ \A s \in PrefixStreams(sy[t].pool, sy[t].idx) : StreamDrained(s)
            /\ sy[t].idx >= SMGR_N_STREAMS =>
                  \A n \in 0..MaxIdx :
                      StreamDrained(TargetStream(sy[t].pool, n, "handle"))

\* the streams and handles held by the live pools
PooledStreams == UNION {{Streams(p)[k] : k \in Slots} : p \in LivePools}
PooledHandles == UNION {{Handles(p)[k] : k \in Slots} : p \in LivePools}

\* C10: with use_default true, stream(i) returns the framework's current
\* stream and handle(i) the framework's current cuBLAS handle, whatever i is
\* and never one of the pool, and sync(k) synchronizes no stream.
C10_DefaultMode ==
    /\ [](\A p \in LivePools : pools[p].use_default =>
            \A n \in 0..MaxIdx :
                /\ stream(p, n) = stream(p, 0)
                /\ handle(p, n) = handle(p, 0)
                /\ stream(p, n) \notin PooledStreams
                /\ handle(p, n) \notin PooledHandles)
    /\ [](\A t \in Threads :
            (sy[t].pool \in PoolIds /\ pools[sy[t].pool].use_default) =>
                pc[t] # "L34" /\ sy[t].waited = <<>>)
    /\ [][(obs' # obs /\ obs'.pool \in PoolIds /\ pools[obs'.pool].use_default) =>
            /\ obs'.op = "stream" => obs'.val = getCurrentCUDAStream
            /\ obs'.op = "handle" => obs'.val = getCurrentCUDABlasHandle
            /\ obs'.op = "handle" =>
                  ArrayRead(hstream', obs'.val) = getCurrentCUDAStream]_vars

\* C10 witness: in default mode, with the framework's own stream current,
\* stream(10) returned that stream.
C10_Witness ==
    /\ obs.op = "stream"
    /\ obs.pool \in LivePools
    /\ pools[obs.pool].use_default
    /\ obs.idx = 10
    /\ fw = FrameworkStream
    /\ obs.val = FrameworkStream

\* C11: when a cudaStreamSynchronize of the waited prefix reported a failure,
\* sync(upto) fails: once the call has returned, its caller has been given
\* the error.
C11_SyncErrorSurfaced ==
    \A t \in Threads :
        (pc[t] # "L34" /\ sy[t].pool \in PoolIds /\ sy[t].failed) =>
            SyncSurfaces(t)

\* the steps of setup that failed on pool p: the slots whose stream or handle
\* was not created, and those whose handle was not bound to its stream
FailedSteps(p) ==
    {k \in Slots : \/ Streams(p)[k] = Wild
                   \/ Handles(p)[k] = Wild
                   \/ ArrayRead(hstream, Handles(p)[k]) # Streams(p)[k]}

\* C12: when a step of setup failed (device selection, creation of a stream
\* or of a handle, binding of a handle to its stream), setup failed: the pool
\* is not live and the failure ended the call that was creating it.
C12_SetupFailsOnAnyStep ==
    /\ \A p \in PoolIds :
          FailedSteps(p) # {} => phase[p] = "setup" /\ aborted
    /\ bindFaults > 0 => aborted

\* the streams and the handles that setup created for pool p
CreatedStreams(p) == {Streams(p)[k] : k \in Slots} \ {Wild}
CreatedHandles(p) == {Handles(p)[k] : k \in Slots} \ {Wild}

\* C13: when setup was stopped by a failing step after it had created streams
\* or handles, either the failure terminated the process or every stream and
\* handle created before the failing step has been released.
C13_PartialReleaseOrAbort ==
    \A p \in PoolIds :
        phase[p] = "setup" =>
            \/ aborted
            \/ /\ \A x \in CreatedStreams(p) : BagIn(x, released.streams)
               /\ \A h \in CreatedHandles(p) : BagIn(h, released.handles)

\* C13 witness: setup failed creating the handle of slot 2, after the streams
\* of slots 0..2 and the handles of slots 0..1 had been created; none of them
\* was released and the process was terminated.
C13_Witness ==
    \E p \in PoolIds :
        /\ phase[p] = "setup"
        /\ aborted
        /\ Cardinality(CreatedStreams(p)) = 3
        /\ Cardinality(CreatedHandles(p)) = 2
        /\ released.streams = EmptyBag

\* no pool has been destroyed a second time, so the arrays of every pool that
\* has not been destroyed are the memory its setup allocated and filled
NoDoubleDestroy == \A q \in PoolIds : destroys[q] <= 1

\* C14: a call of destroy that returns on a live pool, one whose arrays no
\* second destroy of another pool has deleted, releases each of the N streams
\* and each of the N handles that setup created for the pool exactly once,
\* and releases nothing else.
C14_DestroyReleasesOnce ==
    [][\A p \in PoolIds :
          (NoDoubleDestroy /\ phase[p] = "live" /\ destroys'[p] = 1) =>
              /\ Cardinality(CreatedStreams(p)) = SMGR_N_STREAMS
              /\ Cardinality(CreatedHandles(p)) = SMGR_N_STREAMS
              /\ released'.streams =
                    released.streams (+) SetToBag(CreatedStreams(p))
              /\ released'.handles =
                    released.handles (+) SetToBag(CreatedHandles(p))
              /\ \A x \in CreatedStreams(p) : CopiesIn(x, released'.streams) = 1
              /\ \A h \in CreatedHandles(p) : CopiesIn(h, released'.handles) = 1]_vars

\* C14 witness: destroy has returned on two pools, the second set up in the
\* memory of the arrays the first destroy deleted; the 2N streams and the 2N
\* handles of the two pools have each been released once.
C14_Witness ==
    /\ ~aborted
    /\ Len(pools) = 2
    /\ \A p \in PoolIds : phase[p] = "destroyed" /\ destroys[p] = 1
    /\ pools[2].streams = pools[1].handles
    /\ pools[2].handles = pools[1].streams
    /\ BagToSet(released.streams) = (FrameworkStream + 1)..nStreams
    /\ BagToSet(released.handles) = (FrameworkHandle + 1)..Len(hstream)
    /\ \A x \in BagToSet(released.streams) : CopiesIn(x, released.streams) = 1
    /\ \A h \in BagToSet(released.handles) : CopiesIn(h, released.handles) = 1

\* C15: every step that changes the registry map is the insertion (line 74)
\* by the thread that holds smgr_mtx, and it leaves every entry that exists
\* as it is: entries are never removed and never replaced.
C15_InsertOnlyUnderMutex ==
    [][smgrs' # smgrs =>
          /\ \E t \in Threads :
                smgr_mtx = t /\ pc[t] = "E74" /\ pc'[t] = "L75"
          /\ \A d \in Devices : smgrs[d] # End => smgrs'[d] = smgrs[d]]_vars

\* C15 witness: a second insertion into the registry was made and the entry
\* of the first is still there.
C15_Witness ==
    /\ \A d \in Devices : smgrs[d] \in PoolIds
    /\ \A d \in Devices, e \in Devices : d # e => smgrs[d] # smgrs[e]
    /\ \A d \in Devices : pools[smgrs[d]].device = d

\* C16: a call of getCudaStreamManager(d) that started when the entry of d
\* was in the registry stays on the fast path: it is at the lookup of line 68
\* or at the return of line 82, never at the lock, in the locked section or
\* in setup.
C16_FastPathNeverLocks ==
    \A t \in Threads : warm[t] => pc[t] \in {"L68", "F68", "L82"}

\* the streams and the handles that exist: created and not released
ValidStreams == {x \in (FrameworkStream + 1)..nStreams : ~BagIn(x, released.streams)}
ValidHandles == {h \in (FrameworkHandle + 1)..Len(hstream) : ~BagIn(h, released.handles)}

\* C17: whatever operations are called, no stream and no handle is released
\* more than once (a pool is destroyed at most once), a pool that is not live
\* was never set up or was destroyed once, and every stream or handle that
\* stream or handle returned from the arrays, or that sync waits on, has been
\* created and not released.
C17_Lifecycle ==
    /\ \A x \in BagToSet(released.streams) : CopiesIn(x, released.streams) = 1
    /\ \A h \in BagToSet(released.handles) : CopiesIn(h, released.handles) = 1
    /\ \A p \in PoolIds : destroys[p] <= 1
    /\ (obs.op = "stream" /\ ~pools[obs.pool].use_default) =>
          obs.val \in ValidStreams
    /\ (obs.op = "handle" /\ ~pools[obs.pool].use_default) =>
          obs.val \in ValidHandles
    /\ \A t \in Threads :
          pc[t] = "L34" =>
              \A j \in 1..Len(sy[t].waited) : sy[t].waited[j] \in ValidStreams

\* the pools that have been inserted into the registry
Inserted == {smgrs[d] : d \in Devices} \cap PoolIds

\* a step of stream, handle, sync or getCudaStreamManager
AccessStep ==
    \/ \E p \in PoolIds, idx \in LifeIdx : StreamCall(Client, p, idx)
    \/ \E p \in PoolIds, idx \in LifeIdx : HandleCall(Client, p, idx)
    \/ \E p \in PoolIds, k \in LifeSyncArgs : SyncEnter(Client, p, k)
    \/ SyncWait(Client)
    \/ SyncWaitFail(Client)
    \/ SyncReturn(Client)
    \/ \E p \in PoolIds, op \in {"stream", "handle"}, idx \in LifeIdx :
          StaleCall(Client, p, op, idx)
    \/ \E p \in PoolIds, k \in LifeSyncArgs : StaleSync(Client, p, k)
    \/ getCudaStreamManagerSucceeding(Client)

\* C18: a step of stream, handle, sync or getCudaStreamManager leaves the
\* streams pointer, the handles pointer, the device and the use_default flag
\* of every pool that is in the registry, the elements of the arrays of
\* every such pool that is live, and every entry of the registry, as they
\* are.  (The arrays of a pool exist while it is live and no second destroy
\* of another pool has deleted them.)
C18_AccessorsChangeNothing ==
    [][\/ /\ \A p \in Inserted : pools'[p] = pools[p]
          /\ \A p \in Inserted :
                (NoDoubleDestroy /\ phase[p] = "live") =>
                    /\ Streams(p)' = Streams(p)
                    /\ Handles(p)' = Handles(p)
          /\ \A d \in Devices : smgrs[d] # End => smgrs'[d] = smgrs[d]
       \/ ~AccessStep]_vars

\* C18 witness: on a pool of the registry handle(idx) was called after a
\* further getCudaStreamManager call created the pool of the other device;
\* the handle returned is the one setup stored.
C18_Witness ==
    /\ obs.op = "handle"
    /\ obs.pool \in Inserted
    /\ obs.pool = 1
    /\ \A d \in Devices : smgrs[d] \in PoolIds
    /\ obs.val = Handles(obs.pool)[StreamSlot(obs.idx)]
    /\ obs.val \in ValidHandles

\* the positions between smgr_mtx.lock() and smgr_mtx.unlock()
LockedSection == {"L71", "F71", "L73", "L74", "E74", "L75", "L79"}

\* C19: smgr_mtx is held exactly by a thread that is between lock (line 70)
\* and unlock (line 75 or 79), so it is free whenever no thread is there and
\* no call returns holding it; and under fair scheduling, with setup
\* terminating, every call of getCudaStreamManager returns.
C19_MutexReleasedCallsReturn ==
    /\ [](\A t \in Threads : pc[t] \in LockedSection <=> smgr_mtx = t)
    /\ \A t \in Threads : (pc[t] # "idle") ~> (pc[t] = "idle")

\* C20: a call of getCudaStreamManager(d) that created the pool is at its
\* return (line 77) with the current device of its thread set to d; and the
\* current device of a thread changes only in the step in which that thread
\* runs setup, so a call that finds an entry (and returns at line 82) leaves
\* it as it was.
C20_CurrentDevice ==
    /\ [](\A t \in Threads : pc[t] = "L77" => curDevice[t] = device[t])
    /\ [][\A t \in Threads :
            curDevice'[t] # curDevice[t] =>
                /\ pc[t] = "L73"
                /\ pc'[t] \in {"L73", "L74"}
                /\ curDevice'[t] = device[t]]_vars

\* C20 witness: one thread created the pool of device 1 and is at its return
\* with current device 1; another found the entry of device 1 and is at its
\* return with its current device still 0.
C20_Witness ==
    \E t \in Threads, u \in Threads :
        /\ pc[t] = "L77" /\ device[t] = 1 /\ curDevice[t] = 1
        /\ pc[u] = "L82" /\ device[u] = 1 /\ curDevice[u] = 0
        /\ it[u] = smgr[t]

====
